---- MODULE Spec2Model ----
(***************************************************************************)
(* Model of the holiday particle experience: the App component's state     *)
(* (mode, newPhoto), the Experience component's refs and effects, the      *)
(* MediaPipe/camera initialisation and the requestAnimationFrame loop.      *)
(*                                                                         *)
(* Units: landmark coordinates are the normalised [0,1] coordinates of the *)
(* source multiplied by 100, so the thresholds 0.05, 0.25 and 0.4 are 5,   *)
(* 25 and 40.                                                              *)
(*                                                                         *)
(* Scheduling: JavaScript runs one task at a time, so every handler is one *)
(* atomic action.  A setState call of a handler is applied, in call order, *)
(* by the re-render React schedules from that handler; the passive effects *)
(* of that re-render run ahead of the next animation frame.                *)
(***************************************************************************)
EXTENDS FiniteSets, Integers, Sequences, TLC

\* ---------------------------------------------------------------- bounds
MaxFrames == 4
MaxPosts == 2
\* landmark coordinates lie in 0..100: no distance exceeds 100 * sqrt(3)
MaxDistance == 174
\* world coordinates lie in -2540..2540: no length exceeds 2540 * sqrt(3)
MaxLength == 4400
\* generateContent calls followed
MaxRequests == 3

\* ------------------------------------------------------------- constants
TREE == "TREE"
SCATTER == "SCATTER"
FOCUS == "FOCUS"
AppMode == {TREE, SCATTER, FOCUS}

DECORATION == "DECORATION"
DUST == "DUST"
PHOTO == "PHOTO"

Null == "null"
\* focusTarget = null, and no animation frame request: array positions and
\* request ids start at 1
NoTarget == 0
NoRequest == 0

NumDecorations == 1500
NumDust == 2500

PinchThreshold == 5
FistThreshold == 25
OpenThreshold == 40
NumTips == 3

\* ------------------------------------------------------- vector helpers
\* the square root, for the perfect squares the samples below produce
Sqrt(n) == CHOOSE r \in 0..MaxDistance : r * r = n

distanceTo(p, q) ==
    Sqrt((p[1] - q[1]) * (p[1] - q[1])
         + (p[2] - q[2]) * (p[2] - q[2])
         + (p[3] - q[3]) * (p[3] - q[3]))

Plus(p, q) == <<p[1] + q[1], p[2] + q[2], p[3] + q[3]>>

\* ----------------------------------------------------- inputs (bounded)
\* Hand samples: the landmarks the gesture code reads (0 wrist, 4 thumb
\* tip, 8 index tip, 12/16/20 middle, ring and pinky tips).
WristPoint == <<50, 90, 0>>
ThumbPoint == <<40, 40, 10>>
\* index tip at distance 4 (pinch), 5 (the threshold itself) and 10 of the
\* thumb
IndexOffsets == {<<0, 0, 4>>, <<3, 4, 0>>, <<6, 0, 8>>}
\* finger tips at distance 20, 25, 30, 40 and 45 of the wrist
TipOffsets == [d20 |-> <<-12, -16, 0>>, d25 |-> <<-15, -20, 0>>,
               d30 |-> <<0, -30, 0>>, d40 |-> <<-24, -32, 0>>,
               d45 |-> <<0, -27, 36>>]
\* average 20, 25 (three unequal tips), 30, 40 and 45
TipChoices == {<<"d20", "d20", "d20">>, <<"d20", "d25", "d30">>,
               <<"d30", "d30", "d30">>, <<"d40", "d40", "d40">>,
               <<"d45", "d45", "d45">>}

MakeHand(io, tc) ==
    [i \in {0, 4, 8, 12, 16, 20} |->
        CASE i = 0 -> WristPoint
          [] i = 4 -> ThumbPoint
          [] i = 8 -> Plus(ThumbPoint, io)
          [] i = 12 -> Plus(WristPoint, TipOffsets[tc[1]])
          [] i = 16 -> Plus(WristPoint, TipOffsets[tc[2]])
          [] i = 20 -> Plus(WristPoint, TipOffsets[tc[3]])]

HandSamples == {MakeHand(io, tc) : io \in IndexOffsets, tc \in TipChoices}

PhotoUrls == {"a", "b"}

\* ------------------------------------------------------------------ state
VARIABLES
    mounted,        \* the Experience component is mounted
    mode,           \* App's mode state
    modeRef,        \* modeRef.current
    focusTarget,    \* animate's closure variable: position of a particle or NoTarget
    particles,      \* particlesRef.current, as runs of equal particles
    newPhoto,       \* App's newPhoto state
    loading,        \* texture loads in flight, in the order they started
    posted,         \* number of calls that set newPhoto to a URL
    mpPc,           \* position of initMediaPipe
    landmarkerRef,  \* landmarkerRef.current is set
    streamLive,     \* the camera stream returned by getUserMedia is live
    srcObject,      \* video.srcObject holds the stream
    videoPlaying,   \* video.currentTime > 0
    canvasAttached, \* renderer.domElement is in the document
    rafScheduled,   \* animation frame requests not yet run or cancelled
    requestRef,     \* requestRef.current
    nextRafId,      \* the id the next requestAnimationFrame returns
    lastFrame,      \* what the most recent animate call did
    \* one particle followed through SCATTER frames
    initialPos,     \* p.initialPos
    velocity,       \* p.velocity
    targetPos,      \* targetPos at the end of the SCATTER branch
    scatterRan,     \* the SCATTER branch has run for the particle
    \* the control surface (UI component)
    showGenTools,   \* the tools panel is open
    genPrompt,      \* text of the generation prompt
    isGenerating,   \* a generation is in progress
    genError,       \* the error message shown in the tools panel, or Null
    isEditing,      \* an edit is in progress
    editPrompt,     \* text of the edit prompt
    selectedFileForEdit, \* a file is selected for editing
    previewUrl,     \* data URL of the file to edit, or Null
    reading,        \* a FileReader started by handleFileChange is in flight
    pending,        \* kinds of the service requests in flight
    serviceCalls,   \* number of generateContent calls issued
    lastSettled     \* the request that settled last and the response it got

sceneVars == <<mounted, mode, modeRef, focusTarget, particles, newPhoto, loading,
               posted, mpPc, landmarkerRef, streamLive, srcObject, videoPlaying,
               canvasAttached, rafScheduled, requestRef, nextRafId, lastFrame>>

scatterVars == <<initialPos, velocity, targetPos, scatterRan>>

uiVars == <<showGenTools, genPrompt, isGenerating, genError, isEditing,
            editPrompt, selectedFileForEdit, previewUrl, reading, pending,
            serviceCalls, lastSettled>>

vars == <<sceneVars, scatterVars, uiVars>>

\* --------------------------------------------------------- particle store
\* particlesRef.current is kept as a sequence of runs: a run stands for
\* `count` consecutive particles of one type.  A PHOTO particle is always a
\* run of its own (it carries its texture); the particle at position i of
\* the array is identified by i, which is also how a mesh is referred to.
addParticleFirst(ps, type, tex) ==
    <<[type |-> type, count |-> 1, tex |-> tex]>> \o ps

addParticle(ps, type, tex) ==
    IF /\ type # PHOTO
       /\ ps # <<>>
       /\ ps[Len(ps)].type = type
    THEN [ps EXCEPT ![Len(ps)].count = @ + 1]
    ELSE Append(ps, [type |-> type, count |-> 1, tex |-> tex])

addParticlesOneShort(ps, type, n) ==
    IF n <= 1 THEN ps
    ELSE LET first == addParticle(ps, type, Null)
         IN  [first EXCEPT ![Len(first)].count = @ + (n - 2)]

\* for (let i = 0; i < n; i++) addParticle(type), for a type other than
\* PHOTO: the first call starts or extends a run, the others extend it
addParticles(ps, type, n) ==
    IF n = 0 THEN ps
    ELSE LET first == addParticle(ps, type, Null)
         IN  [first EXCEPT ![Len(first)].count = @ + (n - 1)]

CreateParticles ==
    addParticle(addParticles(addParticles(<<>>, DECORATION, NumDecorations),
                             DUST, NumDust),
                PHOTO, "initial")

RECURSIVE ParticleCount(_)
ParticleCount(ps) ==
    IF ps = <<>> THEN 0
    ELSE ps[Len(ps)].count + ParticleCount(SubSeq(ps, 1, Len(ps) - 1))

\* the array positions the k-th run covers
RunPositions(ps, k) ==
    (ParticleCount(SubSeq(ps, 1, k - 1)) + 1) .. ParticleCount(SubSeq(ps, 1, k))

\* particlesRef.current.filter(p => p.type === 'PHOTO'), as array positions
PhotoParticles(ps) ==
    UNION {RunPositions(ps, k) : k \in {j \in 1..Len(ps) : ps[j].type = PHOTO}}

\* ------------------------------------------------------ gesture classifier
Pinch(lm) == distanceTo(lm[4], lm[8]) < PinchThreshold

\* avgDist * tips.length: the sum of the tip-to-wrist distances.  The code
\* divides the sum by tips.length and compares the quotient with the
\* thresholds; the model multiplies the thresholds instead, to stay in the
\* integers.
TipsSum(lm) ==
    distanceTo(lm[12], lm[0]) + distanceTo(lm[16], lm[0]) + distanceTo(lm[20], lm[0])

IsFistInclusive(lm) == TipsSum(lm) <= FistThreshold * NumTips

IsFist(lm) == TipsSum(lm) < FistThreshold * NumTips

IsOpenHand(lm) == TipsSum(lm) > OpenThreshold * NumTips

PinchCalls(currentMode, lm) ==
    IF Pinch(lm) /\ currentMode # FOCUS THEN <<FOCUS>> ELSE <<>>

FistOpenCalls(currentMode, lm) ==
    IF IsFist(lm)
    THEN (IF currentMode # TREE THEN <<TREE>> ELSE <<>>)
    ELSE IF IsOpenHand(lm)
         THEN (IF currentMode # SCATTER THEN <<SCATTER>> ELSE <<>>)
         ELSE <<>>

\* the setMode calls of one frame, in call order
GestureCalls(currentMode, lm) ==
    PinchCalls(currentMode, lm) \o FistOpenCalls(currentMode, lm)

\* App's mode after the re-render that applies the calls: the last one wins
setMode(m, calls) == IF calls = <<>> THEN m ELSE calls[Len(calls)]

FocusTargetsNotCleared(currentMode, ft, ps) ==
    IF currentMode # FOCUS THEN {ft}
    ELSE IF ft = NoTarget /\ PhotoParticles(ps) # {} THEN PhotoParticles(ps)
         ELSE {ft}

FocusTargetsRedrawn(currentMode, ft, ps) ==
    IF currentMode # FOCUS THEN {NoTarget}
    ELSE IF PhotoParticles(ps) # {} THEN PhotoParticles(ps)
         ELSE {ft}

\* the values focusTarget can have after the selection and the clearing
FocusTargets(currentMode, ft, ps) ==
    IF currentMode # FOCUS THEN {NoTarget}
    ELSE IF ft = NoTarget /\ PhotoParticles(ps) # {} THEN PhotoParticles(ps)
         ELSE {ft}

\* ------------------------------------------------------------------- Init
\* The state once the component has mounted and its effects have run: the
\* scene and the initial particles exist, initMediaPipe awaits the vision
\* fileset, the first animation frame is requested.
NoFrame ==
    [n |-> 0, outcome |-> "none", lm |-> Null, currentMode |-> Null,
     calls |-> <<>>, modeBefore |-> Null, next |-> NoRequest]

SceneInit ==
    /\ mounted = TRUE
    /\ mode = TREE
    /\ modeRef = TREE
    /\ focusTarget = NoTarget
    /\ particles = CreateParticles
    /\ newPhoto = Null
    /\ loading = <<>>
    /\ posted = 0
    /\ mpPc = "resolver"
    /\ landmarkerRef = FALSE
    /\ streamLive = FALSE
    /\ srcObject = FALSE
    /\ videoPlaying = FALSE
    /\ canvasAttached = TRUE
    /\ rafScheduled = {1}
    /\ requestRef = 1
    /\ nextRafId = 2
    /\ lastFrame = NoFrame

\* new THREE.Vector3()
ZeroVector == <<0, 0, 0>>

\* no particle is followed
ScatterIdle ==
    /\ initialPos = ZeroVector
    /\ velocity = ZeroVector
    /\ targetPos = ZeroVector
    /\ scatterRan = FALSE

NoneSettled == [n |-> 0, kind |-> "none", response |-> [ok |-> TRUE, parts |-> <<>>],
                postedBefore |-> 0, callsBefore |-> 0]

\* the useState initial values of the UI component
UIInit ==
    /\ showGenTools = FALSE
    /\ genPrompt = ""
    /\ isGenerating = FALSE
    /\ genError = Null
    /\ isEditing = FALSE
    /\ editPrompt = ""
    /\ selectedFileForEdit = FALSE
    /\ previewUrl = Null
    /\ reading = FALSE
    /\ pending = {}
    /\ serviceCalls = 0
    /\ lastSettled = NoneSettled

Init == SceneInit /\ ScatterIdle /\ UIInit

\* ------------------------------------------------------- animation frame
\* the condition under which animate calls detectForVideo
CanDetect == landmarkerRef /\ mounted /\ videoPlaying

\* the gesture block runs only when the detection returned landmarks
FrameCallsAlways(outcome, currentMode, lm) ==
    IF outcome = "hand" THEN GestureCalls(currentMode, lm) ELSE <<TREE>>

FrameCalls(outcome, currentMode, lm) ==
    IF outcome = "hand" THEN GestureCalls(currentMode, lm) ELSE <<>>

\* requestAnimationFrame(animate) at the end of animate
RequestNext(scheduled, id, next) == (scheduled \ {id}) \cup {next}

\* animate, called for request id, when detectForVideo (if it is called)
\* returns: outcome is "skipped" (not called), "empty" (no landmarks) or
\* "hand" (the landmarks lm).
AnimateBody(id, outcome, lm) ==
    LET currentMode == modeRef
        calls == FrameCalls(outcome, currentMode, lm)
    IN  /\ mode' = setMode(mode, calls)
        /\ focusTarget' \in FocusTargets(currentMode, focusTarget, particles)
        /\ rafScheduled' = RequestNext(rafScheduled, id, nextRafId)
        /\ requestRef' = nextRafId
        /\ nextRafId' = nextRafId + 1
        /\ lastFrame' = [n |-> lastFrame.n + 1, outcome |-> outcome, lm |-> lm,
                         currentMode |-> currentMode, calls |-> calls,
                         modeBefore |-> mode, next |-> nextRafId]
        /\ UNCHANGED <<mounted, modeRef, particles, newPhoto, loading, posted,
                       mpPc, landmarkerRef, streamLive, srcObject, videoPlaying,
                       canvasAttached>>
        /\ UNCHANGED <<scatterVars, uiVars>>

\* a requested frame is due: React has flushed the effects of the last
\* re-render (modeRef.current = mode)
FrameDue(id) ==
    /\ id \in rafScheduled
    /\ modeRef = mode
    /\ lastFrame.n < MaxFrames

AnimateSkipped ==
    \E id \in rafScheduled :
        /\ FrameDue(id)
        /\ ~CanDetect
        /\ AnimateBody(id, "skipped", Null)

AnimateNoHand ==
    \E id \in rafScheduled :
        /\ FrameDue(id)
        /\ CanDetect
        /\ AnimateBody(id, "empty", Null)

AnimateHand ==
    \E id \in rafScheduled, lm \in HandSamples :
        /\ FrameDue(id)
        /\ CanDetect
        /\ AnimateBody(id, "hand", lm)

\* detectForVideo throws: animate is left at the call, nothing after it runs
AnimateThrows ==
    \E id \in rafScheduled :
        /\ FrameDue(id)
        /\ CanDetect
        /\ rafScheduled' = rafScheduled \ {id}
        /\ lastFrame' = [n |-> lastFrame.n + 1, outcome |-> "threw", lm |-> Null,
                         currentMode |-> modeRef, calls |-> <<>>,
                         modeBefore |-> mode, next |-> NoRequest]
        /\ UNCHANGED <<mounted, mode, modeRef, focusTarget, particles, newPhoto,
                       loading, posted, mpPc, landmarkerRef, streamLive, srcObject,
                       videoPlaying, canvasAttached, requestRef, nextRafId>>
        /\ UNCHANGED <<scatterVars, uiVars>>

\* useEffect(() => { modeRef.current = mode; }, [mode])
SyncModeRef ==
    /\ mounted
    /\ modeRef # mode
    /\ modeRef' = mode
    /\ UNCHANGED <<mounted, mode, focusTarget, particles, newPhoto, loading,
                   posted, mpPc, landmarkerRef, streamLive, srcObject,
                   videoPlaying, canvasAttached, rafScheduled, requestRef,
                   nextRafId, lastFrame>>
    /\ UNCHANGED <<scatterVars, uiVars>>

\* ------------------------------------------------------------ new photos
\* The "Handle New Photos" effect, run by the re-render that follows a
\* setNewPhoto call: it runs when newPhoto differs from the value of the
\* previous render (the effect's dependency), and starts a texture load
\* when the new value is a URL.
PhotoEffect(old, new, loads) ==
    IF new # old /\ new # Null THEN Append(loads, new) ELSE loads

\* handlePhotoUpload's reader.onload / handlePhotoGenerated: setNewPhoto(url)
PostPhoto ==
    \E url \in PhotoUrls :
        /\ mounted
        /\ posted < MaxPosts
        /\ newPhoto' = url
        /\ posted' = posted + 1
        /\ loading' = PhotoEffect(newPhoto, url, loading)
        /\ UNCHANGED <<mounted, mode, modeRef, focusTarget, particles, mpPc,
                       landmarkerRef, streamLive, srcObject, videoPlaying,
                       canvasAttached, rafScheduled, requestRef, nextRafId,
                       lastFrame>>
        /\ UNCHANGED <<scatterVars, uiVars>>

RemoveAt(q, i) == SubSeq(q, 1, i - 1) \o SubSeq(q, i + 1, Len(q))

\* clearNewPhoto: setNewPhoto(null); nothing once App is unmounted
clearNewPhoto(isMounted, photo) == IF isMounted THEN Null ELSE photo

\* the onLoad callback of TextureLoader.load for the i-th load in flight
TextureLoaded ==
    \E i \in 1..Len(loading) :
        /\ particles' = addParticle(particles, PHOTO, loading[i])
        /\ newPhoto' = clearNewPhoto(mounted, newPhoto)
        /\ loading' = PhotoEffect(newPhoto, newPhoto', RemoveAt(loading, i))
        /\ UNCHANGED <<mounted, mode, modeRef, focusTarget, posted, mpPc,
                       landmarkerRef, streamLive, srcObject, videoPlaying,
                       canvasAttached, rafScheduled, requestRef, nextRafId,
                       lastFrame>>
        /\ UNCHANGED <<scatterVars, uiVars>>

\* ------------------------------------------------------- initMediaPipe
mpUnchanged ==
    /\ UNCHANGED <<mounted, mode, modeRef, focusTarget, particles, newPhoto,
                   loading, posted, canvasAttached, rafScheduled, requestRef,
                   nextRafId, lastFrame>>
    /\ UNCHANGED <<scatterVars, uiVars>>

\* await FilesetResolver.forVisionTasks(...) resolves
VisionResolved ==
    /\ mpPc = "resolver"
    /\ mpPc' = "create"
    /\ UNCHANGED <<landmarkerRef, streamLive, srcObject, videoPlaying>>
    /\ mpUnchanged

\* either await of the model load rejects: initMediaPipe ends there
ModelLoadFails ==
    /\ mpPc \in {"resolver", "create"}
    /\ mpPc' = "failed"
    /\ UNCHANGED <<landmarkerRef, streamLive, srcObject, videoPlaying>>
    /\ mpUnchanged

\* the position after createFromOptions: getUserMedia is called when
\* navigator.mediaDevices.getUserMedia exists and videoRef.current is set
AfterCreate(hasMediaDevices, isMounted) ==
    IF hasMediaDevices /\ isMounted THEN "getUserMedia" ELSE "done"

\* await HandLandmarker.createFromOptions(...) resolves
LandmarkerCreated ==
    \E hasMediaDevices \in BOOLEAN :
        /\ mpPc = "create"
        /\ landmarkerRef' = TRUE
        /\ mpPc' = AfterCreate(hasMediaDevices, mounted)
        /\ UNCHANGED <<streamLive, srcObject, videoPlaying>>
        /\ mpUnchanged

\* await getUserMedia({video: true}) resolves with a live stream; the
\* assignment to videoRef.current.srcObject throws into the catch when the
\* component is unmounted (videoRef.current is null)
StreamAcquired ==
    /\ mpPc = "getUserMedia"
    /\ streamLive' = TRUE
    /\ srcObject' = mounted
    /\ mpPc' = "done"
    /\ UNCHANGED <<landmarkerRef, videoPlaying>>
    /\ mpUnchanged

\* getUserMedia rejects: caught and logged
StreamDenied ==
    /\ mpPc = "getUserMedia"
    /\ mpPc' = "done"
    /\ UNCHANGED <<landmarkerRef, streamLive, srcObject, videoPlaying>>
    /\ mpUnchanged

\* the video's loadeddata listener: play()
VideoPlays ==
    /\ mounted
    /\ srcObject
    /\ ~videoPlaying
    /\ videoPlaying' = TRUE
    /\ UNCHANGED <<mpPc, landmarkerRef, streamLive, srcObject>>
    /\ mpUnchanged

\* --------------------------------------------------------------- teardown
\* cancelAnimationFrame(requestRef.current)
CancelFrame(scheduled, ref) == scheduled \ {ref}

\* Unmount: the cleanups of the effects that return one (the scene effect,
\* the animation effect) run; the elements of the component leave the
\* document.
Teardown ==
    /\ mounted
    /\ mounted' = FALSE
    /\ canvasAttached' = FALSE
    /\ rafScheduled' = CancelFrame(rafScheduled, requestRef)
    /\ UNCHANGED <<mode, modeRef, focusTarget, particles, newPhoto, loading,
                   posted, mpPc, landmarkerRef, streamLive, srcObject,
                   videoPlaying, requestRef, nextRafId, lastFrame>>
    /\ UNCHANGED <<scatterVars, uiVars>>

\* ------------------------------------------------- SCATTER target position
\* Units: world coordinates and velocities are multiplied by 100, so the
\* shell radii 8 and 20 are 800 and 2000, a coordinate of initialPos lies in
\* -2500..2500 and a coordinate of velocity in -2..2 (0.025 is 2.5).
ShellMin == 800
ShellMax == 2000

\* Math.sqrt rounded down, by bisection of lo..hi
RECURSIVE SqrtSearch(_, _, _)
SqrtSearch(n, lo, hi) ==
    IF lo = hi THEN lo
    ELSE LET mid == (lo + hi + 1) \div 2
         IN  IF mid * mid <= n THEN SqrtSearch(n, mid, hi)
             ELSE SqrtSearch(n, lo, mid - 1)

lengthSq(v) == v[1] * v[1] + v[2] * v[2] + v[3] * v[3]

\* THREE.Vector3.length
length(v) == SqrtSearch(lengthSq(v), 0, MaxLength)

\* THREE.Vector3.addScaledVector
addScaledVector(p, v, s) == <<p[1] + v[1] * s, p[2] + v[2] * s, p[3] + v[3] * s>>

\* THREE.Vector3.setLength(l) is normalize().multiplyScalar(l), and
\* normalize() is divideScalar(length() || 1): the zero vector is divided
\* by 1
setLength(v, l) ==
    LET len == IF length(v) = 0 THEN 1 ELSE length(v)
    IN  <<(v[1] * l) \div len, (v[2] * l) \div len, (v[3] * l) \div len>>

ClampMin(v) == IF length(v) < ShellMin THEN setLength(v, ShellMin) ELSE v

ClampMax(v) == IF length(v) > ShellMax THEN setLength(v, ShellMax) ELSE v

\* the SCATTER branch: s is Math.sin(time * 0.001) * 20
ScatterTarget(p, v, s) == ClampMax(ClampMin(addScaledVector(p, v, s)))

\* the integer arithmetic above is exact on a vector: its length is an
\* integer and the divisions of setLength leave no remainder
Exact(v) ==
    /\ length(v) * length(v) = lengthSq(v)
    /\ length(v) > 0 =>
           \A i \in 1..3 : \A l \in {ShellMin, ShellMax} : (v[i] * l) % length(v) = 0

\* values of Math.sin(time * 0.001) * 20
SinTimes20 == {-20, -10, 0, 10, 20}

\* coordinates of initialPos: (Math.random() - 0.5) * 50, and 0 for an
\* added photo
PosCoords == {-1200, 0, 40, 180, 240, 480, 640, 1200, 1600, 1800, 2400}
\* coordinates of velocity: (Math.random() - 0.5) * 0.05
VelCoords == {-2, 0, 2}

Vectors(coords) == {<<x, y, z>> : x \in coords, y \in coords, z \in coords}

\* the particles followed: those on which the arithmetic is exact at every
\* sampled time
ParticleSamples ==
    {pv \in Vectors(PosCoords) \X Vectors(VelCoords) :
        \A s \in SinTimes20 : Exact(addScaledVector(pv[1], pv[2], s))}

InitScatter ==
    /\ SceneInit
    /\ UIInit
    /\ \E pv \in ParticleSamples : initialPos = pv[1] /\ velocity = pv[2]
    /\ targetPos = ZeroVector
    /\ scatterRan = FALSE

\* one pass of animate's loop body over the particle in SCATTER mode
ScatterFrame ==
    \E s \in SinTimes20 :
        /\ targetPos' = ScatterTarget(initialPos, velocity, s)
        /\ scatterRan' = TRUE
        /\ UNCHANGED <<initialPos, velocity, sceneVars, uiVars>>

NextScatter == ScatterFrame

SpecScatter == InitScatter /\ [][NextScatter]_vars

\* ------------------------------------------- image generation and editing
\* A response of ai.models.generateContent: ok is FALSE when the call
\* rejects; parts is response.candidates?.[0]?.content?.parts || [].  A part
\* carries text or inlineData (here the base64 data, Null when absent).
TextPart == [text |-> "done", inlineData |-> Null]
ImagePart(data) == [text |-> Null, inlineData |-> data]

PartLists == {<<>>, <<TextPart>>, <<TextPart, ImagePart("AAA")>>,
              <<ImagePart("BBB"), ImagePart("AAA")>>}

Responses == {[ok |-> FALSE, parts |-> <<>>]}
             \cup {[ok |-> TRUE, parts |-> ps] : ps \in PartLists}

\* a loop that ends without a part that has inlineData still yields data
RECURSIVE FirstInlineDataOrUndefined(_)
FirstInlineDataOrUndefined(parts) ==
    IF parts = <<>> THEN "undefined"
    ELSE IF Head(parts).inlineData # Null THEN Head(parts).inlineData
    ELSE FirstInlineDataOrUndefined(Tail(parts))

\* for (const part of parts) if (part.inlineData) return ...: the data of
\* the first part that has inlineData, Null when the loop ends without one
RECURSIVE FirstInlineData(_)
FirstInlineData(parts) ==
    IF parts = <<>> THEN Null
    ELSE IF Head(parts).inlineData # Null THEN Head(parts).inlineData
    ELSE FirstInlineData(Tail(parts))

\* `data:image/png;base64,${part.inlineData.data}`
DataUrl(data) == "data:image/png;base64," \o data

Threw == [threw |-> TRUE, url |-> Null]
Returned(url) == [threw |-> FALSE, url |-> url]

\* generateChristmasImage: the rejection of the call and "No image
\* generated." are both rethrown by its catch
generateChristmasImage(response) ==
    IF ~response.ok THEN Threw
    ELSE LET data == FirstInlineData(response.parts)
         IN  IF data = Null THEN Threw ELSE Returned(DataUrl(data))

\* editImageWithGemini: as above, with "No edited image returned."
editImageWithGemini(response) ==
    IF ~response.ok THEN Threw
    ELSE LET data == FirstInlineData(response.parts)
         IN  IF data = Null THEN Threw ELSE Returned(DataUrl(data))

GenerateFailed == "Failed to generate image."
EditFailed == "Failed to edit image."

Prompts == {"", "snow"}
\* the data URL FileReader.readAsDataURL gives for the selected file
FilePreview == "data:image/jpeg;base64,SRC"

\* state of App and Experience a UI handler leaves alone
uiSceneUnchanged ==
    UNCHANGED <<mounted, mode, modeRef, focusTarget, particles, mpPc,
                landmarkerRef, streamLive, srcObject, videoPlaying,
                canvasAttached, rafScheduled, requestRef, nextRafId, lastFrame,
                scatterVars>>

\* the "AI MAGIC" / "CLOSE AI TOOLS" button
ToggleGenTools ==
    /\ showGenTools' = ~showGenTools
    /\ UNCHANGED <<genPrompt, isGenerating, genError, isEditing, editPrompt,
                   selectedFileForEdit, previewUrl, reading, pending,
                   serviceCalls, lastSettled, newPhoto, posted, loading>>
    /\ uiSceneUnchanged

\* onChange of the generation prompt input
SetGenPrompt ==
    \E text \in Prompts :
        /\ showGenTools /\ ~selectedFileForEdit
        /\ text # genPrompt
        /\ genPrompt' = text
        /\ UNCHANGED <<showGenTools, isGenerating, genError, isEditing,
                       editPrompt, selectedFileForEdit, previewUrl, reading,
                       pending, serviceCalls, lastSettled, newPhoto, posted,
                       loading>>
        /\ uiSceneUnchanged

\* onChange of the edit prompt input
SetEditPrompt ==
    \E text \in Prompts :
        /\ showGenTools /\ selectedFileForEdit
        /\ text # editPrompt
        /\ editPrompt' = text
        /\ UNCHANGED <<showGenTools, genPrompt, isGenerating, genError,
                       isEditing, selectedFileForEdit, previewUrl, reading,
                       pending, serviceCalls, lastSettled, newPhoto, posted,
                       loading>>
        /\ uiSceneUnchanged

\* handleFileChange with the tools panel open: the file is selected for
\* editing and read.  (With the panel closed the file is uploaded, which
\* ends in PostPhoto.)  One read is followed at a time.
handleFileChange ==
    /\ showGenTools
    /\ ~reading
    /\ selectedFileForEdit' = TRUE
    /\ reading' = TRUE
    /\ UNCHANGED <<showGenTools, genPrompt, isGenerating, genError, isEditing,
                   editPrompt, previewUrl, pending, serviceCalls, lastSettled,
                   newPhoto, posted, loading>>
    /\ uiSceneUnchanged

\* reader.onload of handleFileChange: setPreviewUrl
PreviewLoaded ==
    /\ reading
    /\ reading' = FALSE
    /\ previewUrl' = FilePreview
    /\ UNCHANGED <<showGenTools, genPrompt, isGenerating, genError, isEditing,
                   editPrompt, selectedFileForEdit, pending, serviceCalls,
                   lastSettled, newPhoto, posted, loading>>
    /\ uiSceneUnchanged

\* the "Generate New" tab button
SelectGenerateTab ==
    /\ showGenTools
    /\ selectedFileForEdit \/ previewUrl # Null
    /\ selectedFileForEdit' = FALSE
    /\ previewUrl' = Null
    /\ UNCHANGED <<showGenTools, genPrompt, isGenerating, genError, isEditing,
                   editPrompt, reading, pending, serviceCalls, lastSettled,
                   newPhoto, posted, loading>>
    /\ uiSceneUnchanged

\* handleGenerate up to its await; the button is rendered in the
\* generation tab and disabled while isGenerating
handleGenerate ==
    /\ showGenTools /\ ~selectedFileForEdit /\ ~isGenerating
    /\ genPrompt # ""
    /\ serviceCalls < MaxRequests
    /\ isGenerating' = TRUE
    /\ genError' = Null
    /\ pending' = pending \cup {"generate"}
    /\ serviceCalls' = serviceCalls + 1
    /\ UNCHANGED <<showGenTools, genPrompt, isEditing, editPrompt,
                   selectedFileForEdit, previewUrl, reading, lastSettled,
                   newPhoto, posted, loading>>
    /\ uiSceneUnchanged

\* handleEdit up to its await; the button is rendered in the edit tab and
\* disabled while isEditing
handleEdit ==
    /\ showGenTools /\ selectedFileForEdit /\ ~isEditing
    /\ editPrompt # "" /\ previewUrl # Null
    /\ serviceCalls < MaxRequests
    /\ isEditing' = TRUE
    /\ genError' = Null
    /\ pending' = pending \cup {"edit"}
    /\ serviceCalls' = serviceCalls + 1
    /\ UNCHANGED <<showGenTools, genPrompt, isGenerating, editPrompt,
                   selectedFileForEdit, previewUrl, reading, lastSettled,
                   newPhoto, posted, loading>>
    /\ uiSceneUnchanged

Settled(kind, response) ==
    [n |-> lastSettled.n + 1, kind |-> kind, response |-> response,
     postedBefore |-> posted, callsBefore |-> serviceCalls]

\* onPhotoGenerated(url): App's handlePhotoGenerated, setNewPhoto(url), and
\* the new-photo effect of the re-render
onPhotoGenerated(url) ==
    /\ newPhoto' = url
    /\ posted' = posted + 1
    /\ loading' = PhotoEffect(newPhoto, url, loading)

\* handleGenerate from its await on: try, catch and finally
GenerateSettled ==
    \E response \in Responses :
        LET result == generateChristmasImage(response)
        IN  /\ "generate" \in pending
            /\ pending' = pending \ {"generate"}
            /\ IF result.threw
                   THEN /\ genError' = GenerateFailed
                        /\ UNCHANGED <<genPrompt, showGenTools, newPhoto,
                                       posted, loading>>
                   ELSE /\ onPhotoGenerated(result.url)
                        /\ genPrompt' = ""
                        /\ showGenTools' = FALSE
                        /\ UNCHANGED genError
            /\ isGenerating' = FALSE
            /\ lastSettled' = Settled("generate", response)
            /\ UNCHANGED <<isEditing, editPrompt, selectedFileForEdit,
                           previewUrl, reading, serviceCalls>>
            /\ uiSceneUnchanged

\* handleEdit from its await on: try, catch and finally
EditSettled ==
    \E response \in Responses :
        LET result == editImageWithGemini(response)
        IN  /\ "edit" \in pending
            /\ pending' = pending \ {"edit"}
            /\ IF result.threw
                   THEN /\ genError' = EditFailed
                        /\ UNCHANGED <<editPrompt, selectedFileForEdit,
                                       previewUrl, showGenTools, newPhoto,
                                       posted, loading>>
                   ELSE /\ onPhotoGenerated(result.url)
                        /\ editPrompt' = ""
                        /\ selectedFileForEdit' = FALSE
                        /\ previewUrl' = Null
                        /\ showGenTools' = FALSE
                        /\ UNCHANGED genError
            /\ isEditing' = FALSE
            /\ lastSettled' = Settled("edit", response)
            /\ UNCHANGED <<isGenerating, genPrompt, reading, serviceCalls>>
            /\ uiSceneUnchanged

NextUI ==
    \/ ToggleGenTools
    \/ SetGenPrompt
    \/ SetEditPrompt
    \/ handleFileChange
    \/ PreviewLoaded
    \/ SelectGenerateTab
    \/ handleGenerate
    \/ handleEdit
    \/ GenerateSettled
    \/ EditSettled

SpecUI == Init /\ [][NextUI]_vars

\* ------------------------------------------------------------------- Spec
Next ==
    \/ AnimateSkipped
    \/ AnimateNoHand
    \/ AnimateHand
    \/ AnimateThrows
    \/ SyncModeRef
    \/ PostPhoto
    \/ TextureLoaded
    \/ VisionResolved
    \/ ModelLoadFails
    \/ LandmarkerCreated
    \/ StreamAcquired
    \/ StreamDenied
    \/ VideoPlays
    \/ Teardown

Spec == Init /\ [][Next]_vars

\* ================================================================= claims
FrameCompleted == lastFrame.outcome \in {"skipped", "empty", "hand"}

HandFrame == lastFrame.outcome = "hand"

\* the thumb-tip to index-tip distance of the last frame's sample is < 0.05
LastPinch == distanceTo(lastFrame.lm[4], lastFrame.lm[8]) < PinchThreshold

\* three times the avgDist of the last frame's sample
LastTipsSum ==
    distanceTo(lastFrame.lm[12], lastFrame.lm[0])
    + distanceTo(lastFrame.lm[16], lastFrame.lm[0])
    + distanceTo(lastFrame.lm[20], lastFrame.lm[0])

\* C1: after a frame whose hand sample has thumb-index distance < 0.05, the
\* mode is FOCUS, whatever the mode was and whatever avgDist is.
C1_PinchPrecedence == (HandFrame /\ LastPinch) => mode = FOCUS

\* C2: when two consecutive frames both deliver a pinch sample, the mode
\* after the second is FOCUS and a PHOTO particle is the FocusTarget.
C2_SustainedPinch ==
    [][(/\ lastFrame'.n = lastFrame.n + 1
        /\ HandFrame /\ LastPinch
        /\ HandFrame' /\ LastPinch')
       => (mode' = FOCUS /\ focusTarget' \in PhotoParticles(particles'))]_vars

\* C3: after a frame with a hand sample and no pinch, avgDist < 0.25 leaves
\* the mode TREE, avgDist > 0.4 leaves it SCATTER, and an avgDist in
\* [0.25, 0.4] calls setMode not at all and leaves the mode as it was.
C3_FistOpenDeadZone ==
    (HandFrame /\ ~LastPinch) =>
        /\ LastTipsSum < 3 * FistThreshold => mode = TREE
        /\ LastTipsSum > 3 * OpenThreshold => mode = SCATTER
        /\ (LastTipsSum >= 3 * FistThreshold /\ LastTipsSum <= 3 * OpenThreshold)
           => (lastFrame.calls = <<>> /\ mode = lastFrame.modeBefore)

\* a frame in SCATTER whose sample has avgDist exactly 0.25 and no pinch
C3_Witness ==
    /\ HandFrame /\ ~LastPinch
    /\ LastTipsSum = 3 * FistThreshold
    /\ lastFrame.modeBefore = SCATTER
    /\ mode = SCATTER

\* C4: a frame that obtains no hand sample (detection not attempted, or no
\* landmarks returned) calls setMode not at all, leaves the mode as it was,
\* and runs to its end, where the next frame is requested.
C4_NoHandNoChange ==
    lastFrame.outcome \in {"skipped", "empty"} =>
        /\ lastFrame.calls = <<>>
        /\ mode = lastFrame.modeBefore
        /\ lastFrame.next # NoRequest

\* a frame in FOCUS for which the detection returned no landmarks
C4_Witness ==
    /\ lastFrame.outcome = "empty"
    /\ lastFrame.modeBefore = FOCUS
    /\ mode = FOCUS

\* C5: when two consecutive frames deliver the same hand sample, the mode
\* after the second frame is the mode after the first.
C5_Idempotent ==
    [][(/\ lastFrame'.n = lastFrame.n + 1
        /\ HandFrame /\ HandFrame'
        /\ lastFrame'.lm = lastFrame.lm)
       => mode' = mode]_vars

\* C6: a frame calls setMode at most once.
C6_AtMostOneSignal == Len(lastFrame.calls) <= 1

C8_ExactlyOnce ==
    loading = <<>> => Cardinality(PhotoParticles(particles)) = 1 + posted

\* C9: once the component is torn down and initMediaPipe has ended, the
\* camera stream and the rendering surface are released.
C9_ReleasedOnTeardown ==
    (~mounted /\ mpPc \in {"done", "failed"}) => (~streamLive /\ ~canvasAttached)

\* C10: while mounted exactly one frame is requested at any time (every
\* frame requests its successor); after teardown none is.
C10_LoopCancellation ==
    IF mounted THEN Cardinality(rafScheduled) = 1 ELSE rafScheduled = {}

\* initMediaPipe ended without a camera stream (the model load rejected,
\* getUserMedia rejected or does not exist)
NoGestureInput == mpPc = "failed" \/ (mpPc = "done" /\ ~streamLive)

\* C11: once the model load, the camera acquisition or a detectForVideo
\* call has failed, the mounted component still has its next frame
\* requested, the last frame made no setMode call and the mode is the one
\* that frame found.
C11_FailureContained ==
    (mounted /\ (NoGestureInput \/ lastFrame.outcome = "threw")) =>
        /\ Cardinality(rafScheduled) = 1
        /\ lastFrame.calls = <<>>
        /\ lastFrame.n > 0 => mode = lastFrame.modeBefore

\* the particles of the initial population, in insertion order
InitialPopulation ==
    <<[type |-> DECORATION, count |-> 1500], [type |-> DUST, count |-> 2500],
      [type |-> PHOTO, count |-> 1]>>

\* C14: the store a frame reads starts with 1500 DECORATION, 2500 DUST and
\* 1 PHOTO particle, in that order, so it holds at least 4001 particles.
C14_NonEmptyStore ==
    /\ Len(particles) >= 3
    /\ \A k \in 1..3 :
        /\ particles[k].type = InitialPopulation[k].type
        /\ particles[k].count = InitialPopulation[k].count
    /\ ParticleCount(particles) >= 4001

\* a frame has run on the initial population and a photo added since
C14_Witness ==
    /\ lastFrame.n >= 2
    /\ lastFrame.next # NoRequest
    /\ ParticleCount(particles) = 4002

\* C15: a step changes the store only by appending one PHOTO particle and
\* leaving every earlier particle as it was, and a step of animate does
\* not change the store.
C15_AppendOnlyBetweenFrames ==
    [][/\ \/ particles' = particles
          \/ /\ Len(particles') = Len(particles) + 1
             /\ SubSeq(particles', 1, Len(particles)) = particles
             /\ particles'[Len(particles')].type = PHOTO
             /\ particles'[Len(particles')].count = 1
       /\ lastFrame' # lastFrame => particles' = particles]_vars

\* a photo was appended between two frames
C15_Witness ==
    /\ Len(particles) > 3
    /\ lastFrame.n >= 2
    /\ lastFrame.next # NoRequest

\* C16: a selected FocusTarget is a PHOTO particle, no step other than a
\* completed frame changes it, and a completed frame that reads FOCUS
\* keeps it, whatever photos were added meanwhile.
C16_TargetStable ==
    [][/\ (focusTarget # NoTarget /\ lastFrame'.currentMode = FOCUS)
          => focusTarget' = focusTarget
       /\ focusTarget' # focusTarget
          => (lastFrame'.n = lastFrame.n + 1 /\ lastFrame'.next # NoRequest)
       /\ focusTarget' # NoTarget => focusTarget' \in PhotoParticles(particles')]_vars

\* the target is kept by a later frame in FOCUS with more than one PHOTO
\* particle in the store
C16_Witness ==
    /\ focusTarget # NoTarget
    /\ lastFrame.n >= 3
    /\ lastFrame.currentMode = FOCUS
    /\ lastFrame.next # NoRequest
    /\ Cardinality(PhotoParticles(particles)) > 1


\* C13: in every SCATTER frame, whatever the particle's initialPos and
\* velocity and whatever the time, the target position left by the clamp has
\* a length in [8, 20], the zero vector and vectors shorter than 8 included.
C13_ClampedLength ==
    scatterRan => (length(targetPos) >= ShellMin /\ length(targetPos) <= ShellMax)


NoImage(response) ==
    \/ ~response.ok
    \/ \A i \in 1..Len(response.parts) : response.parts[i].inlineData = Null

\* C12: when a generate or edit request settles, its in-progress flag is
\* false and the request is no longer in flight, after a success as after a
\* failure; when it failed (the call rejected, or the response has no image)
\* the error message of its kind is set, no new-photo event is posted and no
\* further service call is issued.  A service call is never issued by a
\* settling request.
C12_FailureHandling ==
    [][/\ lastSettled'.n # lastSettled.n =>
            LET kind == lastSettled'.kind
                flagAfter == IF kind = "generate" THEN isGenerating' ELSE isEditing'
                message == IF kind = "generate" THEN GenerateFailed ELSE EditFailed
            IN  /\ flagAfter = FALSE
                /\ kind \notin pending'
                /\ NoImage(lastSettled'.response) =>
                       /\ genError' = message
                       /\ posted' = posted
                       /\ newPhoto' = newPhoto
                       /\ loading' = loading
                       /\ pending' \subseteq pending
       /\ serviceCalls' # serviceCalls => lastSettled' = lastSettled]_vars

C12_Witness ==
    /\ lastSettled.n >= 2
    /\ lastSettled.kind = "edit"
    /\ lastSettled.response.ok /\ NoImage(lastSettled.response)
    /\ genError = EditFailed
    /\ ~isEditing
    /\ isGenerating

====
